---- MODULE Spec2Model ----
(***************************************************************************)
(* Model of the NdJson scan node of                                        *)
(* datafusion/src/physical_plan/file_format/json.rs: NdJsonExec, the       *)
(* per-file producer JsonBatchReader and the partition stream (FileStream) *)
(* that execute() returns.                                                 *)
(*                                                                         *)
(* Abstractions.  A file is a sequence of rows; a row is either a          *)
(* well-formed JSON object, known by the set of its keys, or a malformed   *)
(* line.  A read position is a number of rows already consumed.  A data    *)
(* type is a primitive or a struct, known by the set of its field names    *)
(* (the order of struct fields is abstracted away).  An array is a data    *)
(* type with a sequence of values; the value of a deserialized row is its  *)
(* 1-based position in the file, the value -1 is null.  I/O errors of the  *)
(* byte source itself (seek, read) are not modelled.                       *)
(***************************************************************************)
EXTENDS Integers, Sequences, FiniteSets, TLC

\* ------------------------------------------------------------------ bounds
MaxRows == 2
MaxFiles == 2
MaxLimit == 2
MaxChildren == 1
MaxSteps == 3

\* ------------------------------------------------------------- data model
Min(a, b) == IF a <= b THEN a ELSE b

Range(s) == {s[i] : i \in 1..Len(s)}

RECURSIVE SumSeq(_)
SumSeq(s) == IF s = <<>> THEN 0 ELSE Head(s) + SumSeq(Tail(s))

IsPrefix(s, t) == Len(s) <= Len(t) /\ SubSeq(t, 1, Len(s)) = s

Int64 == [kind |-> "Int64", keys |-> {}]
Int32 == [kind |-> "Int32", keys |-> {}]
Utf8 == [kind |-> "Utf8", keys |-> {}]
NullType == [kind |-> "Null", keys |-> {}]
Struct(ks) == [kind |-> "Struct", keys |-> ks]

Field(n, t) == [name |-> n, data_type |-> t]

None == [some |-> FALSE, v |-> 0]
Some(x) == [some |-> TRUE, v |-> x]

NoProjection == [some |-> FALSE, v |-> <<>>]
SomeProjection(idx) == [some |-> TRUE, v |-> idx]

RowA == [ok |-> TRUE, keys |-> {"a"}]
RowAB == [ok |-> TRUE, keys |-> {"a", "b"}]
RowBad == [ok |-> FALSE, keys |-> {}]

\* Items of the producers and of the stream.
NoItem == [kind |-> "none", columns |-> <<>>, num_rows |-> 0]
ErrorItem == [kind |-> "error", columns |-> <<>>, num_rows |-> 0]
BatchItem(cols, n) == [kind |-> "batch", columns |-> cols, num_rows |-> n]

\* ------------------------------------------------- arrow::io::ndjson::read
\* infer(reader, None): fails on a reader with no unread bytes, otherwise
\* reads every remaining row, fails at the first malformed one, and returns
\* the coerced type of the rows read (structs are merged field by field).
infer(reader) ==
    LET n == Len(reader.data)
        rest == (reader.pos + 1)..n
        bad == {j \in rest : ~reader.data[j].ok}
    IN  IF reader.pos >= n
        THEN [ok |-> FALSE, data_type |-> NullType, pos |-> reader.pos]
        ELSE IF bad # {}
        THEN [ok |-> FALSE, data_type |-> NullType,
              pos |-> CHOOSE j \in bad : \A k \in bad : j <= k]
        ELSE [ok |-> TRUE,
              data_type |-> Struct(UNION {reader.data[j].keys : j \in rest}),
              pos |-> n]

\* Seek::rewind: seek to the start of the byte source.
rewind(reader) == [reader EXCEPT !.pos = 0]

\* read_rows: FileReader::next reads at most Len(rows) rows from the current
\* position; a chunk of zero rows is the end of the iteration.
read_rows(reader, nrows) ==
    LET last == Min(reader.pos + nrows, Len(reader.data))
    IN  [rows |-> [i \in 1..(last - reader.pos) |-> reader.pos + i],
         reader |-> [reader EXCEPT !.pos = last]]

\* deserialize(rows, data_type): one array of data_type with one value per
\* row; fails if a row is not valid JSON.
deserialize(data, rows, data_type) ==
    IF \E i \in 1..Len(rows) : ~data[rows[i]].ok
    THEN [ok |-> FALSE, array |-> [data_type |-> NullType, values |-> <<>>]]
    ELSE [ok |-> TRUE, array |-> [data_type |-> data_type, values |-> rows]]

\* ----------------------------------------------------------- RecordBatch
\* RecordBatch::try_new: the batch invariant (one column per field, of the
\* field's type, all of one length) or an error.
try_new(schema, arrays) ==
    IF /\ Len(arrays) = Len(schema)
       /\ \A i \in 1..Len(arrays) : arrays[i].data_type = schema[i].data_type
       /\ \A i, j \in 1..Len(arrays) :
              Len(arrays[i].values) = Len(arrays[j].values)
    THEN BatchItem(arrays, IF arrays = <<>> THEN 0 ELSE Len(arrays[1].values))
    ELSE ErrorItem

\* -------------------------------------------------------- JsonBatchReader
\* BufReader::new(file): a reader at the start of the file's rows.
BufReaderNew(file) == [data |-> file.rows, pos |-> 0]

JsonBatchReaderNew(reader, schema, batch_size, proj) ==
    [reader |-> reader, schema |-> schema, proj |-> proj, rows |-> batch_size]

\* The loop of JsonBatchReader::next: every chunk the FileReader yields is
\* deserialized into one array and pushed; the loop ends at the chunk of zero
\* rows, or fails at the first chunk that does not deserialize.
RECURSIVE read_arrays(_, _, _, _)
read_arrays(reader, nrows, data_type, arrays) ==
    LET chunk == read_rows(reader, nrows)
        des == deserialize(reader.data, chunk.rows, data_type)
    IN  IF chunk.rows = <<>>
        THEN [ok |-> TRUE, arrays |-> arrays, reader |-> chunk.reader]
        ELSE IF ~des.ok
        THEN [ok |-> FALSE, arrays |-> arrays, reader |-> chunk.reader]
        ELSE read_arrays(chunk.reader, nrows, data_type,
                         Append(arrays, des.array))

\* The reader as the FileReader of a step receives it: after the inference
\* pass over it and the rewind.
rewound_reader(self) ==
    rewind([self.reader EXCEPT !.pos = infer(self.reader).pos])

\* JsonBatchReader::next as it would be if it rewound the reader once more
\* after the rows were read.
JsonBatchReaderNext_rewinding(self) ==
    LET inf == infer(self.reader)
        res == read_arrays(rewound_reader(self), self.rows, inf.data_type,
                           <<>>)
    IN  IF ~inf.ok
        THEN [item |-> NoItem, self |-> [self EXCEPT !.reader.pos = inf.pos]]
        ELSE IF ~res.ok
        THEN [item |-> NoItem, self |-> [self EXCEPT !.reader = res.reader]]
        ELSE [item |-> try_new(self.schema, res.arrays),
              self |-> [self EXCEPT !.reader = rewind(res.reader)]]

\* JsonBatchReader::next as it would be if a failed inference pass were
\* returned to the caller as a failed item.
JsonBatchReaderNext_propagating(self) ==
    LET inf == infer(self.reader)
        res == read_arrays(rewound_reader(self), self.rows, inf.data_type,
                           <<>>)
    IN  IF ~inf.ok
        THEN [item |-> ErrorItem,
              self |-> [self EXCEPT !.reader.pos = inf.pos]]
        ELSE IF ~res.ok
        THEN [item |-> NoItem, self |-> [self EXCEPT !.reader = res.reader]]
        ELSE [item |-> try_new(self.schema, res.arrays),
              self |-> [self EXCEPT !.reader = res.reader]]

\* JsonBatchReader::next as it would be if the reader went back to the
\* position it held before the inference pass.
JsonBatchReaderNext_seeking_back(self) ==
    LET inf == infer(self.reader)
        res == read_arrays(self.reader, self.rows, inf.data_type, <<>>)
    IN  IF ~inf.ok
        THEN [item |-> NoItem, self |-> [self EXCEPT !.reader.pos = inf.pos]]
        ELSE IF ~res.ok
        THEN [item |-> NoItem, self |-> [self EXCEPT !.reader = res.reader]]
        ELSE [item |-> try_new(self.schema, res.arrays),
              self |-> [self EXCEPT !.reader = res.reader]]

\* JsonBatchReader::next as it would be if it read one chunk of rows per
\* step instead of looping to the end of the file.
JsonBatchReaderNext_one_chunk(self) ==
    LET inf == infer(self.reader)
        chunk == read_rows(rewound_reader(self), self.rows)
        des == deserialize(self.reader.data, chunk.rows, inf.data_type)
    IN  IF ~inf.ok
        THEN [item |-> NoItem, self |-> [self EXCEPT !.reader.pos = inf.pos]]
        ELSE IF ~des.ok
        THEN [item |-> NoItem, self |-> [self EXCEPT !.reader = chunk.reader]]
        ELSE [item |-> try_new(self.schema, <<des.array>>),
              self |-> [self EXCEPT !.reader = chunk.reader]]

\* JsonBatchReader::next.  Every `.ok()?` turns a failure into exhaustion.
JsonBatchReaderNext(self) ==
    LET inf == infer(self.reader)
        res == read_arrays(rewound_reader(self), self.rows, inf.data_type,
                           <<>>)
    IN  IF ~inf.ok
        THEN [item |-> NoItem, self |-> [self EXCEPT !.reader.pos = inf.pos]]
        ELSE IF ~res.ok
        THEN [item |-> NoItem, self |-> [self EXCEPT !.reader = res.reader]]
        ELSE [item |-> try_new(self.schema, res.arrays),
              self |-> [self EXCEPT !.reader = res.reader]]

\* ------------------------------------------------------------- FileStream
NoBatchIter ==
    [present |-> FALSE, file |-> 0,
     it |-> JsonBatchReaderNew([data |-> <<>>, pos |-> 0], <<>>, 0,
                               NoProjection)]

\* The closure `fun` of execute: the per-file producer of an opened file.
\* The remaining budget is ignored.
fun(file, file_schema, batch_size, proj) ==
    JsonBatchReaderNew(BufReaderNew(file), file_schema, batch_size, proj)

FileStreamNew(files, file_schema, batch_size, proj, schema, limit, cols) ==
    [files |-> files, batch_iter |-> NoBatchIter, partition_values |-> <<>>,
     remain |-> limit, done |-> FALSE, schema |-> schema,
     file_schema |-> file_schema, batch_size |-> batch_size, proj |-> proj,
     table_partition_cols |-> cols]

Event(ev, file, item) == [ev |-> ev, file |-> file, item |-> item]

\* The store as it would be if it handed out an empty byte source for a file
\* it does not know.
file_reader_lenient(f) == [ok |-> TRUE]

\* The store capability: a byte source for the file, or an open error.
file_reader(f) == [ok |-> f.exists]

\* Steps 2 and 3 of the partition stream: pull from the current producer,
\* opening the next file while the producer is absent or exhausted.  A
\* failed item closes the stream, and so does a file the store cannot open.
\* `events` collects what happened.
RECURSIVE next_batch(_, _)
next_batch(s, events) ==
    IF ~s.batch_iter.present
    THEN IF s.files = <<>>
         THEN [item |-> NoItem, stream |-> s, events |-> events]
         ELSE LET f == Head(s.files)
              IN  IF ~file_reader(f).ok
                  THEN [item |-> ErrorItem,
                        stream |-> [s EXCEPT !.files = Tail(s.files),
                                             !.batch_iter.file = f.id,
                                             !.done = TRUE],
                        events |->
                            Append(events, Event("open_failed", f.id, NoItem))]
                  ELSE
                  next_batch(
                      [s EXCEPT !.files = Tail(s.files),
                                !.partition_values = f.partition_values,
                                !.batch_iter =
                                    [present |-> TRUE, file |-> f.id,
                                     it |-> fun(f, s.file_schema,
                                                s.batch_size, s.proj)]],
                      Append(events, Event("open", f.id, NoItem)))
    ELSE LET r == JsonBatchReaderNext(s.batch_iter.it)
             f == s.batch_iter.file
         IN  IF r.item.kind = "none"
             THEN next_batch([s EXCEPT !.batch_iter = NoBatchIter],
                             Append(events, Event("exhausted", f, NoItem)))
             ELSE IF r.item.kind = "error"
             THEN [item |-> r.item,
                   stream |-> [s EXCEPT !.batch_iter.it = r.self,
                                        !.done = TRUE],
                   events |-> events]
             ELSE [item |-> r.item,
                   stream |-> [s EXCEPT !.batch_iter.it = r.self],
                   events |-> events]

\* Truncation of a batch to its first len rows.
slice(item, len) ==
    BatchItem([i \in 1..Len(item.columns) |->
                  [item.columns[i] EXCEPT !.values = SubSeq(@, 1, len)]],
              len)

\* The partition-derived columns: one constant column per partition column,
\* of the batch's row count.
project_partition_cols(item, s) ==
    BatchItem(item.columns \o
                  [i \in 1..Len(s.table_partition_cols) |->
                      [data_type |-> Utf8,
                       values |-> [k \in 1..item.num_rows |->
                                      s.partition_values[i]]]],
              item.num_rows)

\* One production step of the partition stream.
poll_next(s) ==
    IF s.done \/ (s.remain.some /\ s.remain.v = 0)
    THEN [item |-> NoItem, stream |-> s, events |-> <<>>]
    ELSE LET nb == next_batch(s, <<>>)
             len == IF s.remain.some
                    THEN Min(s.remain.v, nb.item.num_rows)
                    ELSE nb.item.num_rows
         IN  IF nb.item.kind # "batch"
             THEN nb
             ELSE [item |-> project_partition_cols(slice(nb.item, len),
                                                   nb.stream),
                   stream |-> [nb.stream EXCEPT
                                  !.remain = IF @.some THEN Some(@.v - len)
                                             ELSE @],
                   events |-> nb.events]

\* -------------------------------------------------------- FileScanConfig
\* The file-schema fields a projection retains (all of them without one).
projected_indices(base_config) ==
    IF base_config.projection.some
    THEN base_config.projection.v
    ELSE [i \in 1..Len(base_config.file_schema) |-> i - 1]

\* FileScanConfig::project: the projected file fields followed by the
\* partition columns, and the statistics restricted the same way (the
\* statistics of a partition column are unknown).
project(base_config) ==
    LET idx == projected_indices(base_config)
        parts == base_config.table_partition_cols
    IN  [schema |->
             [i \in 1..Len(idx) |-> base_config.file_schema[idx[i] + 1]] \o
             [i \in 1..Len(parts) |-> Field(parts[i], Utf8)],
         statistics |->
             [i \in 1..Len(idx) |-> base_config.statistics[idx[i] + 1]] \o
             [i \in 1..Len(parts) |-> "unknown"]]

\* FileScanConfig::projected_file_column_names.
projected_file_column_names(base_config) ==
    IF base_config.projection.some
    THEN SomeProjection(
             [i \in 1..Len(base_config.projection.v) |->
                 base_config.file_schema[base_config.projection.v[i] + 1].name])
    ELSE NoProjection

\* -------------------------------------------------------------- NdJsonExec
NdJsonExecNew(base_config) ==
    [base_config |-> base_config,
     projected_schema |-> project(base_config).schema,
     projected_statistics |-> project(base_config).statistics]

\* schema() as it would be if it returned the file schema.
schema_unprojected(self) == self.base_config.file_schema

schema(self) == self.projected_schema

statistics(self) == self.projected_statistics

output_partitioning(self) == Len(self.base_config.file_groups)

children(self) == <<>>

\* with_new_children as it would be without the check for children.
with_new_children_unchecked(self, new_children) ==
    [result |-> "Ok", node |-> <<self>>]

with_new_children(self, new_children) ==
    IF new_children = <<>>
    THEN [result |-> "Ok", node |-> <<self>>]
    ELSE [result |-> "Err", node |-> <<>>]

\* execute as it would be if it handed the file group over back to front.
execute_reversed(self, partition, rt) ==
    IF partition < Len(self.base_config.file_groups)
    THEN [result |-> "Ok",
          stream |->
              <<FileStreamNew(
                    [i \in 1..Len(self.base_config.file_groups[partition + 1])
                        |-> self.base_config.file_groups[partition + 1][
                                Len(self.base_config.file_groups[partition + 1])
                                + 1 - i]],
                    self.base_config.file_schema,
                    rt.batch_size,
                    projected_file_column_names(self.base_config),
                    self.projected_schema,
                    self.base_config.limit,
                    self.base_config.table_partition_cols)>>]
    ELSE [result |-> "Panic", stream |-> <<>>]

\* execute as it would be if it did not hand the row limit to the stream.
execute_unlimited(self, partition, rt) ==
    IF partition < Len(self.base_config.file_groups)
    THEN [result |-> "Ok",
          stream |->
              <<FileStreamNew(self.base_config.file_groups[partition + 1],
                              self.base_config.file_schema,
                              rt.batch_size,
                              projected_file_column_names(self.base_config),
                              self.projected_schema,
                              None,
                              self.base_config.table_partition_cols)>>]
    ELSE [result |-> "Panic", stream |-> <<>>]

\* execute: the partition index is used unchecked, so an index outside the
\* file groups panics at `file_groups[partition]`.
execute(self, partition, rt) ==
    IF partition < Len(self.base_config.file_groups)
    THEN [result |-> "Ok",
          stream |->
              <<FileStreamNew(self.base_config.file_groups[partition + 1],
                              self.base_config.file_schema,
                              rt.batch_size,
                              projected_file_column_names(self.base_config),
                              self.projected_schema,
                              self.base_config.limit,
                              self.base_config.table_partition_cols)>>]
    ELSE [result |-> "Panic", stream |-> <<>>]

\* ----------------------------------------------------------- configurations
\* The contents a file can have: n well-formed rows {a}, n well-formed rows
\* {a, b}, or n rows {a} of which the last is malformed.
FileRows(n, flavour) ==
    [i \in 1..n |->
        IF flavour = "wide" THEN RowAB
        ELSE IF flavour = "bad" /\ i = n THEN RowBad
        ELSE RowA]

FileContents == {FileRows(n, fl) : n \in 0..MaxRows, fl \in {"good", "bad"}}

RECURSIVE SeqsUpTo(_, _)
SeqsUpTo(S, n) ==
    IF n = 0 THEN {<<>>}
    ELSE LET shorter == SeqsUpTo(S, n - 1)
         IN  shorter \cup {Append(s, x) : s \in shorter, x \in S}

\* The files of a list dealt out in turn to np groups.
Deal(files, np) ==
    [g \in 1..np |->
        [k \in 1..((Len(files) + np - g) \div np) |-> files[(k - 1) * np + g]]]

\* A scan has one or two partitions.
PartitionCounts == {1, 2}

\* A file descriptor: its position in the group, its rows, one partition
\* value per partition column, and whether the store can open it.
PartitionedFile(id, rows, ncols) ==
    [id |-> id, rows |-> rows, partition_values |-> [i \in 1..ncols |-> id],
     exists |-> TRUE]

FileGroups(contents, ncols) ==
    [g \in 1..Len(contents) |->
        [k \in 1..Len(contents[g]) |->
            PartitionedFile(k, contents[g][k], ncols)]]

WrapSchema(ks) == <<Field("", Struct(ks))>>

Limits == {None} \cup {Some(l) : l \in 1..MaxLimit}

BatchSizes == {1, MaxRows}

FileScanConfig(groups, file_schema, projection, limit, cols) ==
    [file_groups |-> FileGroups(groups, Len(cols)),
     file_schema |-> file_schema,
     statistics |-> [i \in 1..Len(file_schema) |-> file_schema[i].name],
     projection |-> projection,
     limit |-> limit,
     table_partition_cols |-> cols]

\* Scans of rows {a} under the schema that wraps them, over every file list
\* dealt out to one or two partitions.
ScanConfigs ==
    {FileScanConfig(groups, WrapSchema({"a"}), NoProjection, limit, <<>>) :
        groups \in {Deal(files, np) :
                       files \in SeqsUpTo(FileContents, MaxFiles),
                       np \in PartitionCounts},
        limit \in Limits}

FileSchemas ==
    {WrapSchema({"a"}), WrapSchema({"a", "b"}),
     <<Field("a", Int64)>>,
     <<Field("a", Int64), Field("missing_col", Int32)>>}

Projections(file_schema) ==
    {NoProjection} \cup
    {SomeProjection(idx) :
        idx \in SeqsUpTo(0..(Len(file_schema) - 1), Len(file_schema))}

\* Scans of one well-formed file under every schema, projection and
\* partition-column list.
SchemaConfigs ==
    UNION {{FileScanConfig(<<<<FileRows(n, fl)>>>>, fs, pr, limit, cols) :
               pr \in Projections(fs)} :
           n \in 1..MaxRows, fl \in {"good", "wide"}, fs \in FileSchemas,
           limit \in {None, Some(1)}, cols \in {<<>>, <<"p">>}}

\* The configuration with file k of group g unknown to the store.
WithMissingFile(base_config, g, k) ==
    [base_config EXCEPT !.file_groups[g][k].rows = <<>>,
                        !.file_groups[g][k].exists = FALSE]

\* Scans of well-formed files in which the store cannot open one file of one
\* group.
OpenFailureConfigs ==
    UNION {UNION {{WithMissingFile(c, g, k) :
                      k \in 1..Len(c.file_groups[g])} :
                  g \in 1..Len(c.file_groups)} :
           c \in {FileScanConfig(Deal(files, np), WrapSchema({"a"}),
                                 NoProjection, limit, <<>>) :
                     files \in SeqsUpTo({FileRows(n, "good") : n \in 0..MaxRows},
                                        MaxFiles),
                     np \in PartitionCounts,
                     limit \in {None, Some(1)}}}

Configs == ScanConfigs \cup SchemaConfigs \cup OpenFailureConfigs

\* Scans of one file of any rows, well-formed or not, for stepping its
\* producer on its own.
ProducerConfigs ==
    {FileScanConfig(<<<<rows>>>>, fs, NoProjection, None, <<>>) :
        rows \in SeqsUpTo({RowA, RowAB, RowBad}, MaxRows),
        fs \in {WrapSchema({"a"}), WrapSchema({"a", "b"})}}

\* ------------------------------------------------------------ state machine
VARIABLES node, runtime, streams, log, lastCall, producer, steps

vars == <<node, runtime, streams, log, lastCall, producer, steps>>

Partitions == UNION {0..(np - 1) : np \in PartitionCounts}

\* The last call on the node: its result, and for execute whether an
\* earlier stream of that partition had ended when the call was made.
NoCall ==
    [op |-> "none", arg |-> 0, result |-> "none", node |-> <<>>,
     prior |-> FALSE]

PriorEnded(p) ==
    p \in Partitions /\ log[p] # <<>> /\ log[p][Len(log[p])].ev = "end"

Init ==
    /\ node \in {NdJsonExecNew(c) : c \in Configs}
    /\ runtime \in [batch_size : BatchSizes]
    /\ streams = [p \in Partitions |-> <<>>]
    /\ log = [p \in Partitions |-> <<>>]
    /\ lastCall = NoCall
    /\ producer = <<>>
    /\ steps = <<>>

\* execute as it would be if the execution state lived in the node: every
\* call restarts the streams of the other partitions as well.
ExecuteShared(p) ==
    LET r == execute(node, p, runtime)
    IN  /\ lastCall' = [op |-> "execute", arg |-> p, result |-> r.result,
                        node |-> <<>>, prior |-> PriorEnded(p)]
        /\ IF r.result = "Ok"
           THEN /\ streams' = [q \in Partitions |->
                                  IF q = p THEN r.stream
                                  ELSE IF streams[q] # <<>>
                                  THEN execute(node, q, runtime).stream
                                  ELSE <<>>]
                /\ log' = [log EXCEPT ![p] = <<>>]
           ELSE UNCHANGED <<streams, log>>
        /\ UNCHANGED <<node, runtime, producer, steps>>

\* execute as it would be if the node kept the stream of a partition and
\* handed it out again on a later call.
ExecuteCached(p) ==
    LET r == execute(node, p, runtime)
    IN  /\ lastCall' = [op |-> "execute", arg |-> p, result |-> r.result,
                        node |-> <<>>, prior |-> PriorEnded(p)]
        /\ IF r.result = "Ok"
           THEN /\ streams' = [streams EXCEPT ![p] =
                                  IF @ # <<>> THEN @ ELSE r.stream]
                /\ log' = [log EXCEPT ![p] = <<>>]
           ELSE UNCHANGED <<streams, log>>
        /\ UNCHANGED <<node, runtime, producer, steps>>

\* exec.execute(partition, runtime): a fresh stream for a valid index.
Execute(p) ==
    LET r == execute(node, p, runtime)
    IN  /\ lastCall' = [op |-> "execute", arg |-> p, result |-> r.result,
                        node |-> <<>>, prior |-> PriorEnded(p)]
        /\ IF r.result = "Ok"
           THEN /\ streams' = [streams EXCEPT ![p] = r.stream]
                /\ log' = [log EXCEPT ![p] = <<>>]
           ELSE UNCHANGED <<streams, log>>
        /\ UNCHANGED <<node, runtime, producer, steps>>

\* stream.next().await on the stream of partition p.  The log records the
\* files opened and exhausted, the items emitted and the end of the stream.
Poll(p) ==
    /\ streams[p] # <<>>
    /\ LET r == poll_next(streams[p][1])
           ended == log[p] # <<>> /\ log[p][Len(log[p])].ev = "end"
       IN  /\ streams' = [streams EXCEPT ![p] = <<r.stream>>]
           /\ log' = [log EXCEPT ![p] =
                  @ \o r.events \o
                  (IF r.item.kind # "none"
                   THEN <<Event("item", r.stream.batch_iter.file, r.item)>>
                   ELSE IF ended THEN <<>>
                   ELSE <<Event("end", 0, NoItem)>>)]
    /\ UNCHANGED <<node, runtime, lastCall, producer, steps>>

\* exec.with_new_children(children) with k children.
WithNewChildren(k) ==
    LET r == with_new_children(node, [i \in 1..k |-> "child"])
    IN  /\ lastCall' = [op |-> "with_new_children", arg |-> k,
                        result |-> r.result, node |-> r.node, prior |-> FALSE]
        /\ UNCHANGED <<node, runtime, streams, log, producer, steps>>

Next ==
    \/ \E p \in Partitions \cup {Cardinality(Partitions)} : Execute(p)
    \/ \E p \in Partitions : Poll(p)
    \/ \E k \in 0..MaxChildren : WithNewChildren(k)

Spec == Init /\ [][Next]_vars

\* ------------------------------------------- the per-file producer alone
\* A producer over the one file of the scan, stepped directly through its
\* Iterator interface.  `steps` records, for every step, the read position
\* before it, whether the inference pass succeeded, the position the row
\* read started from, the kind of the returned item and the position after.
InitProducer ==
    /\ node \in {NdJsonExecNew(c) : c \in ProducerConfigs}
    /\ runtime \in [batch_size : BatchSizes]
    /\ streams = [p \in Partitions |-> <<>>]
    /\ log = [p \in Partitions |-> <<>>]
    /\ lastCall = NoCall
    /\ producer = <<>>
    /\ steps = <<>>

\* fun(file, remaining): a fresh producer over the file.
OpenProducer ==
    /\ producer' = <<fun(node.base_config.file_groups[1][1],
                         node.base_config.file_schema, runtime.batch_size,
                         projected_file_column_names(node.base_config))>>
    /\ steps' = <<>>
    /\ UNCHANGED <<node, runtime, streams, log, lastCall>>

\* producer.next().
StepProducer ==
    /\ producer # <<>>
    /\ Len(steps) < MaxSteps
    /\ LET r == JsonBatchReaderNext(producer[1])
       IN  /\ producer' = <<r.self>>
           /\ steps' = Append(steps,
                  [before |-> producer[1].reader.pos,
                   inferred |-> infer(producer[1].reader).ok,
                   rewound |-> rewound_reader(producer[1]).pos,
                   item |-> r.item,
                   after |-> r.self.reader.pos])
    /\ UNCHANGED <<node, runtime, streams, log, lastCall>>

NextProducer == OpenProducer \/ StepProducer

SpecProducer == InitProducer /\ [][NextProducer]_vars

\* ------------------------------------------------------- reading the log
Group(p) == node.base_config.file_groups[p + 1]

Started(p) == p < output_partitioning(node) /\ streams[p] # <<>>

Ended(p) == log[p] # <<>> /\ log[p][Len(log[p])].ev = "end"

IsItem(e) == e.ev = "item"

IsBatch(e) == e.ev = "item" /\ e.item.kind = "batch"

IsError(e) == e.ev = "item" /\ e.item.kind = "error"

Items(p) == SelectSeq(log[p], IsItem)

AllRowsOk(f) == \A i \in 1..Len(f.rows) : f.rows[i].ok

TotalRows(p) == SumSeq([k \in 1..Len(Group(p)) |-> Len(Group(p)[k].rows)])

EmittedRows(p) == SumSeq([i \in 1..Len(Items(p)) |-> Items(p)[i].item.num_rows])

\* The budget left before the i-th event of the log of partition p.
BudgetBefore(p, i) ==
    node.base_config.limit.v -
    SumSeq([j \in 1..(i - 1) |-> log[p][j].item.num_rows])

\* ------------------------------------------------------------------ claims

\* The store can open the file, every row of it is well-formed and has the
\* shape the file schema declares, and the scan has no projection.
Conformant(f) ==
    /\ f.exists
    /\ ~node.base_config.projection.some
    /\ AllRowsOk(f)
    /\ \A r \in 1..Len(f.rows) :
           node.base_config.file_schema = <<Field("", Struct(f.rows[r].keys))>>

\* C1 (as claimed): with a limit L, when the stream of a partition whose
\* files all conform to the file schema has been polled to exhaustion, the
\* rows of the emitted batches sum to min(L, rows of the group's files), and
\* no item is emitted once the row budget is zero.
C1_RowLimitEnforced ==
    \A p \in Partitions :
        (Started(p) /\ node.base_config.limit.some) =>
            /\ (Ended(p) /\ \A k \in 1..Len(Group(p)) : Conformant(Group(p)[k]))
                   => EmittedRows(p) =
                          Min(node.base_config.limit.v, TotalRows(p))
            /\ \A i \in 1..Len(log[p]) :
                   IsItem(log[p][i]) => BudgetBefore(p, i) > 0

\* C2 (as claimed): every emitted batch has one column per field of schema(),
\* in the schema's order and of the field's type.
C2_BatchesHaveProjectedSchema ==
    \A p \in Partitions :
        \A i \in 1..Len(log[p]) :
            IsBatch(log[p][i]) =>
                LET cols == log[p][i].item.columns
                IN  /\ Len(cols) = Len(schema(node))
                    /\ \A c \in 1..Len(cols) :
                           cols[c].data_type = schema(node)[c].data_type

\* C3 (as claimed): a file with a record that cannot be parsed makes the
\* stream emit a failure as its last item; its producer never reports plain
\* exhaustion and no later file is opened.
C3_ParseErrorIsEmitted ==
    \A p \in Partitions :
        \A i \in 1..Len(log[p]) :
            /\ (log[p][i].ev = "exhausted" /\ Started(p))
                   => AllRowsOk(Group(p)[log[p][i].file])
            /\ IsError(log[p][i]) =>
                   \A j \in (i + 1)..Len(log[p]) : log[p][j].ev = "end"

\* C4 (as claimed): for a field of the target schema that no row of the chunk
\* carries (in a scan without projection), the item is a batch whose column at
\* the field's position has the field's type, the batch's row count and only
\* nulls.
C4_MissingFieldIsNulled ==
    \A p \in Partitions :
        \A i \in 1..Len(log[p]) :
            (IsItem(log[p][i]) /\ Started(p)) =>
                LET f == Group(p)[log[p][i].file]
                    fs == node.base_config.file_schema
                    observed == UNION {f.rows[r].keys : r \in 1..Len(f.rows)}
                    item == log[p][i].item
                IN  \A c \in 1..Len(fs) :
                        (/\ AllRowsOk(f)
                         /\ ~node.base_config.projection.some
                         /\ fs[c].name \notin (observed \cup {""}))
                            => /\ item.kind = "batch"
                               /\ Len(item.columns) >= c
                               /\ item.columns[c].data_type = fs[c].data_type
                               /\ item.columns[c].values =
                                      [r \in 1..item.num_rows |-> -1]

\* The k-th chunk of b rows of a file of n rows.
ChunkRows(n, b, k) == [r \in 1..(Min(k * b, n) - (k - 1) * b) |-> (k - 1) * b + r]

ItemsOfFile(p, id) ==
    LET OfFile(e) == e.ev = "item" /\ e.file = id
    IN  SelectSeq(log[p], OfFile)

\* C5 (as claimed): a file of n rows that conforms to the file schema, read
\* with batch size b, yields ceil(n/b) batches before exhaustion, the k-th
\* holding rows (k-1)*b+1 .. min(k*b, n).
C5_BatchesOfBatchSize ==
    \A p \in Partitions :
        \A i \in 1..Len(log[p]) :
            (/\ Started(p)
             /\ log[p][i].ev \in {"exhausted", "item"}
             /\ ~node.base_config.limit.some
             /\ Conformant(Group(p)[log[p][i].file])) =>
                LET id == log[p][i].file
                    n == Len(Group(p)[id].rows)
                    b == runtime.batch_size
                    its == ItemsOfFile(p, id)
                IN  /\ \A k \in 1..Len(its) :
                           /\ its[k].item.kind = "batch"
                           /\ k * b < n + b
                           /\ \A c \in 1..Len(node.base_config.file_schema) :
                                  /\ c <= Len(its[k].item.columns)
                                  /\ its[k].item.columns[c].values =
                                         ChunkRows(n, b, k)
                    /\ log[p][i].ev = "exhausted" => Len(its) * b >= n

\* C6 (as claimed): execute(i) returns a stream exactly when i is less than
\* the partition count, and an error value otherwise.
C6_ExecuteChecksIndex ==
    lastCall.op = "execute" =>
        IF lastCall.arg < output_partitioning(node)
        THEN lastCall.result = "Ok"
        ELSE lastCall.result = "Err"

\* Every item a fresh producer over the file yields before exhaustion.
RECURSIVE drain_producer(_, _)
drain_producer(it, acc) ==
    LET r == JsonBatchReaderNext(it)
    IN  IF r.item.kind = "none" THEN acc
        ELSE drain_producer(r.self, Append(acc, r.item))

ProducerItems(f) ==
    drain_producer(fun(f, node.base_config.file_schema, runtime.batch_size,
                       projected_file_column_names(node.base_config)), <<>>)

\* The file opened last before the i-th event of the log of partition p.
CurrentFile(p, i) ==
    LET opens == {j \in 1..(i - 1) : log[p][j].ev \in {"open", "open_failed"}}
    IN  IF opens = {} THEN 0
        ELSE log[p][CHOOSE j \in opens : \A k \in opens : k <= j].file

\* C7: within a partition the files are opened in the order of the file
\* group, a file only right after the previous file's producer signalled
\* exhaustion; every item comes from the file opened (or tried) last, so no
\* item of a later file precedes an item of an earlier one; and the items of
\* a file come in the order its producer yields them.
C7_FileGroupOrder ==
    \A p \in Partitions :
        Started(p) =>
            LET opens == SelectSeq(log[p], LAMBDA e :
                                      e.ev \in {"open", "open_failed"})
            IN  /\ Len(opens) <= Len(Group(p))
                /\ \A k \in 1..Len(opens) : opens[k].file = k
                /\ \A i \in 1..Len(log[p]) :
                       /\ (/\ log[p][i].ev \in {"open", "open_failed"}
                           /\ log[p][i].file > 1) =>
                              /\ i > 1
                              /\ log[p][i - 1] =
                                     Event("exhausted", log[p][i].file - 1,
                                           NoItem)
                       /\ log[p][i].ev \in {"item", "exhausted"} =>
                              log[p][i].file = CurrentFile(p, i)
                /\ \A i, j \in 1..Len(Items(p)) :
                       i < j => Items(p)[i].file <= Items(p)[j].file
                /\ (~node.base_config.limit.some
                    /\ node.base_config.table_partition_cols = <<>>) =>
                       \A k \in 1..Len(opens) :
                           Group(p)[k].exists =>
                           IsPrefix([i \in 1..Len(ItemsOfFile(p, k)) |->
                                        ItemsOfFile(p, k)[i].item],
                                    ProducerItems(Group(p)[k]))

\* C7 witness: a stream has emitted a batch of its first file, then a batch
\* of its second file, and has ended.
C7_Witness ==
    \E p \in Partitions :
        /\ Started(p) /\ Ended(p)
        /\ \E i, j \in 1..Len(log[p]) :
               /\ i < j
               /\ IsBatch(log[p][i]) /\ log[p][i].file = 1
               /\ IsBatch(log[p][j]) /\ log[p][j].file = 2

\* C8: with_new_children succeeds exactly on the empty list; on success the
\* returned node equals the receiver (configuration, projected schema and
\* projected statistics), on a non-empty list it returns an error; and no
\* step changes the receiver.
C8_WithNewChildren ==
    /\ [](lastCall.op = "with_new_children" =>
             /\ lastCall.result = "Ok" <=> lastCall.arg = 0
             /\ lastCall.arg = 0 =>
                    /\ Len(lastCall.node) = 1
                    /\ lastCall.node[1].base_config = node.base_config
                    /\ schema(lastCall.node[1]) = schema(node)
                    /\ statistics(lastCall.node[1]) = statistics(node)
             /\ lastCall.arg > 0 =>
                    lastCall.result = "Err" /\ lastCall.node = <<>>)
    /\ [][node' = node]_vars

\* C8 witness: with_new_children was refused for a non-empty list on a node
\* with a projection, after a stream of the node emitted an item.
C8_Witness ==
    /\ lastCall.op = "with_new_children"
    /\ lastCall.arg > 0
    /\ lastCall.result = "Err"
    /\ node.base_config.projection.some
    /\ \E p \in Partitions : Items(p) # <<>>

\* C9: with a projection, schema() is the file-schema fields at the projected
\* indices, in the order of the list, followed by the partition columns; a
\* file-schema field whose index is not in the list is not in schema().
C9_ProjectedSchema ==
    LET bc == node.base_config
        idx == bc.projection.v
        cols == bc.table_partition_cols
    IN  bc.projection.some =>
            /\ Len(schema(node)) = Len(idx) + Len(cols)
            /\ \A i \in 1..Len(idx) :
                   schema(node)[i] = bc.file_schema[idx[i] + 1]
            /\ \A i \in 1..Len(cols) :
                   schema(node)[Len(idx) + i].name = cols[i]
            /\ \A c \in 1..Len(bc.file_schema) :
                   (c - 1) \notin Range(idx) =>
                       \A k \in 1..Len(schema(node)) :
                           schema(node)[k].name # bc.file_schema[c].name

\* C9 witness: a node whose projection keeps the second of two file-schema
\* fields, drops the first, and has a partition column, has handed its
\* schema() to a stream.
C9_Witness ==
    /\ node.base_config.projection = SomeProjection(<<1>>)
    /\ Len(node.base_config.file_schema) = 2
    /\ node.base_config.table_partition_cols # <<>>
    /\ Len(schema(node)) = 2
    /\ Started(0)
    /\ streams[0][1].schema = schema(node)

\* Every item the stream of partition p emits when it is polled alone, from
\* execute to the end.
RECURSIVE drain_stream(_, _)
drain_stream(s, acc) ==
    LET r == poll_next(s)
    IN  IF r.item.kind = "none" THEN acc
        ELSE drain_stream(r.stream, Append(acc, r.item))

SoloItems(p) == drain_stream(execute(node, p, runtime).stream[1], <<>>)

\* C10: whatever the interleaving with the other partitions' streams, the
\* items partition p has emitted so far are the first items of its stream
\* polled alone, and all of them once the stream has ended.
C10_PartitionIndependence ==
    \A p \in Partitions :
        Started(p) =>
            LET emitted == [i \in 1..Len(Items(p)) |-> Items(p)[i].item]
            IN  /\ IsPrefix(emitted, SoloItems(p))
                /\ Ended(p) => emitted = SoloItems(p)

\* C10 witness: one partition's stream has ended in a failure while another
\* partition's stream has emitted a batch and ended.
C10_Witness ==
    \E p, q \in Partitions :
        /\ p # q
        /\ Started(p) /\ Ended(p)
        /\ Started(q) /\ Ended(q)
        /\ \E i \in 1..Len(log[p]) : IsError(log[p][i])
        /\ \E i \in 1..Len(log[q]) : IsBatch(log[q][i])

\* C11: when the store cannot open a file of the group, the stream emits a
\* failure for that file as its last item: nothing but the end of the stream
\* follows it and no later file is opened; a file the store cannot open is
\* never read; and no poll changes what the stream emitted before.
C11_OpenFailureIsLast ==
    /\ [](\A p \in Partitions :
              Started(p) =>
                  \A i \in 1..Len(log[p]) :
                      /\ log[p][i].ev = "open" =>
                             Group(p)[log[p][i].file].exists
                      /\ log[p][i].ev = "open_failed" =>
                             /\ ~Group(p)[log[p][i].file].exists
                             /\ i < Len(log[p])
                             /\ log[p][i + 1] =
                                    Event("item", log[p][i].file, ErrorItem)
                             /\ \A j \in (i + 2)..Len(log[p]) :
                                    log[p][j].ev = "end")
    /\ [][\A p \in Partitions :
              log'[p] # <<>> => IsPrefix(log[p], log'[p])]_vars

\* C11 witness: a stream has emitted a batch of its first file, failed to
\* open its second file, emitted the failure and ended.
C11_Witness ==
    \E p \in Partitions :
        /\ Started(p) /\ Ended(p)
        /\ Len(log[p]) = 6
        /\ IsBatch(log[p][2]) /\ log[p][2].file = 1
        /\ log[p][4].ev = "open_failed" /\ log[p][4].file = 2
        /\ IsError(log[p][5])

\* C12 (as claimed): in every production step, from whatever position it
\* starts, the read position after the inference pass and the rewind equals
\* the position held before the inference pass, so the rows read in the step
\* follow the rows consumed before it.
C12_RewindRestoresPosition ==
    \A i \in 1..Len(steps) :
        steps[i].inferred => steps[i].rewound = steps[i].before

\* The stream of partition p has ended with no file left to open.
EndedAfterLastFile(p) == Ended(p) /\ streams[p][1].files = <<>>

\* The stream of partition p has ended with its row budget used up.
EndedOnBudget(p) ==
    /\ Ended(p)
    /\ streams[p][1].remain.some
    /\ streams[p][1].remain.v = 0

\* The stream of partition p has ended right after emitting a failure.
EndedOnFailure(p) ==
    /\ Ended(p)
    /\ Len(log[p]) > 1
    /\ IsError(log[p][Len(log[p]) - 1])

\* Every poll of a stream that has not ended adds an event to its log.
PollsProgress ==
    \A p \in Partitions :
        (streams[p] # <<>> /\ ~Ended(p) /\ Poll(p)) =>
            Len(log'[p]) > Len(log[p])

\* C13 (as claimed): a stream that is polled again and again ends: every
\* poll before the end adds an event and a stream has at most three events
\* per file of its group (opened, item, exhausted) and its end; and it ends
\* after its last file or after the row budget reached zero.
C13_EndsAtLastFileOrBudget ==
    /\ [](\A p \in Partitions :
              Started(p) =>
                  /\ Len(log[p]) <= 3 * Len(Group(p)) + 1
                  /\ Ended(p) => EndedAfterLastFile(p) \/ EndedOnBudget(p))
    /\ [][PollsProgress]_vars

\* C13 (amended): a stream that is polled again and again ends: every poll
\* before the end adds an event and a stream has at most three events per
\* file of its group and its end; it ends after its last file, after the row
\* budget reached zero, or after emitting a failure; and when it ends for
\* neither of the last two reasons, the producer of every file of the group
\* has returned exhaustion.
C13_StreamTerminates ==
    /\ [](\A p \in Partitions :
              Started(p) =>
                  /\ Len(log[p]) <= 3 * Len(Group(p)) + 1
                  /\ Ended(p) =>
                         \/ EndedOnBudget(p)
                         \/ EndedOnFailure(p)
                         \/ /\ EndedAfterLastFile(p)
                            /\ \A k \in 1..Len(Group(p)) :
                                   \E i \in 1..Len(log[p]) :
                                       log[p][i] =
                                           Event("exhausted", k, NoItem))
    /\ [][PollsProgress]_vars

\* C13 witness: a stream over two files has emitted an item of each, seen
\* both producers return exhaustion, and ended.
C13_Witness ==
    \E p \in Partitions :
        /\ Started(p) /\ EndedAfterLastFile(p)
        /\ Len(log[p]) = 7
        /\ log[p][3] = Event("exhausted", 1, NoItem)
        /\ log[p][6] = Event("exhausted", 2, NoItem)

\* The stream of partition p holds a producer with no unread bytes and its
\* next poll steps that producer.
AtEndOfFile(p) ==
    /\ streams[p] # <<>>
    /\ ~streams[p][1].done
    /\ ~(streams[p][1].remain.some /\ streams[p][1].remain.v = 0)
    /\ streams[p][1].batch_iter.present
    /\ streams[p][1].batch_iter.it.reader.pos >=
           Len(streams[p][1].batch_iter.it.reader.data)

\* C14: a production step that starts with no unread bytes returns
\* exhaustion, not a failed item: the poll that steps such a producer logs
\* the exhaustion of its file first.  In particular an empty file gives no
\* item: its opening is followed by its exhaustion and then by the opening
\* of the next file of the group, or by the end of the stream after the last.
C14_EndOfFileIsExhaustion ==
    /\ [][\A p \in Partitions :
              (AtEndOfFile(p) /\ Poll(p)) =>
                  /\ Len(log'[p]) > Len(log[p])
                  /\ log'[p][Len(log[p]) + 1] =
                         Event("exhausted", streams[p][1].batch_iter.file,
                               NoItem)]_vars
    /\ [](\A p \in Partitions :
              Started(p) =>
                  \A i \in 1..Len(log[p]) :
                      (/\ log[p][i].ev = "open"
                       /\ Group(p)[log[p][i].file].rows = <<>>) =>
                          LET k == log[p][i].file
                          IN  /\ ItemsOfFile(p, k) = <<>>
                              /\ i + 2 <= Len(log[p])
                              /\ log[p][i + 1] = Event("exhausted", k, NoItem)
                              /\ IF k < Len(Group(p))
                                 THEN /\ log[p][i + 2].ev \in
                                            {"open", "open_failed"}
                                      /\ log[p][i + 2].file = k + 1
                                 ELSE log[p][i + 2].ev = "end")

\* C14 witness: a stream has opened an empty first file, logged its
\* exhaustion, opened the second file and emitted a batch of it; the
\* producer of the second file has no unread bytes left.
C14_Witness ==
    \E p \in Partitions :
        /\ Started(p)
        /\ AtEndOfFile(p)
        /\ Len(log[p]) = 4
        /\ Group(p)[1].rows = <<>>
        /\ log[p][1] = Event("open", 1, NoItem)
        /\ log[p][2] = Event("exhausted", 1, NoItem)
        /\ log[p][3] = Event("open", 2, NoItem)
        /\ IsBatch(log[p][4])

\* C15: in every emitted batch every column has as many values as the batch
\* has rows; the last columns are the partition columns, one per partition
\* column of the scan; and under a limit the batch has no more rows than the
\* budget that was left before it.
C15_BatchWithinBudget ==
    \A p \in Partitions :
        Started(p) =>
            \A i \in 1..Len(log[p]) :
                IsBatch(log[p][i]) =>
                    LET item == log[p][i].item
                        nparts == Len(node.base_config.table_partition_cols)
                        ncols == Len(item.columns)
                    IN  /\ \A c \in 1..ncols :
                               Len(item.columns[c].values) = item.num_rows
                        /\ ncols >= nparts
                        /\ \A c \in (ncols - nparts + 1)..ncols :
                               item.columns[c].data_type = Utf8
                        /\ node.base_config.limit.some =>
                               item.num_rows <= BudgetBefore(p, i)

\* C15 witness: under a limit of one row, a file of two rows read as one
\* chunk has given a batch of one row with a partition column.
C15_Witness ==
    \E p \in Partitions :
        /\ Started(p)
        /\ node.base_config.limit = Some(1)
        /\ node.base_config.table_partition_cols # <<>>
        /\ Len(Group(p)[1].rows) = 2
        /\ Len(log[p]) >= 2
        /\ IsBatch(log[p][2])
        /\ log[p][2].item.num_rows = 1
        /\ Len(log[p][2].item.columns) = 2
        /\ log[p][2].item.columns[2].values = <<1>>

\* C16: no step changes the node, so its schema(), statistics(),
\* output_partitioning() and configuration stay as constructed; and right
\* after execute(partition) has returned a stream, that stream has the whole
\* file group ahead of it, no file open, and the node's row limit as its
\* budget, also when an earlier stream of the partition was polled to its
\* end.
C16_ExecuteStartsAfresh ==
    /\ [][/\ node' = node
          /\ schema(node') = schema(node)
          /\ statistics(node') = statistics(node)
          /\ output_partitioning(node') = output_partitioning(node)]_vars
    /\ []((/\ lastCall.op = "execute"
            /\ lastCall.result = "Ok"
            /\ log[lastCall.arg] = <<>>) =>
               /\ Len(streams[lastCall.arg]) = 1
               /\ streams[lastCall.arg][1].files = Group(lastCall.arg)
               /\ ~streams[lastCall.arg][1].batch_iter.present
               /\ ~streams[lastCall.arg][1].done
               /\ streams[lastCall.arg][1].remain = node.base_config.limit)

\* C16 witness: under a row limit, execute has just returned a stream for a
\* partition of two files whose earlier stream had ended.
C16_Witness ==
    /\ lastCall.op = "execute"
    /\ lastCall.result = "Ok"
    /\ lastCall.prior
    /\ log[lastCall.arg] = <<>>
    /\ node.base_config.limit = Some(1)
    /\ Len(Group(lastCall.arg)) = 2
    /\ streams[lastCall.arg][1].files = Group(lastCall.arg)
    /\ streams[lastCall.arg][1].remain = Some(1)

C18_OneItemPerFile ==
    /\ \A i \in 1..Len(steps) :
           steps[i].item.kind # "none" =>
               /\ steps[i].after = Len(producer[1].reader.data)
               /\ i < Len(steps) => steps[i + 1].item.kind = "none"
    /\ Cardinality({i \in 1..Len(steps) : steps[i].item.kind # "none"}) <= 1

\* C18 witness: a producer over a file of more rows than the batch size has
\* returned an item from its first step, with the reader at the end of the
\* file, and exhaustion from its second.
C18_Witness ==
    /\ Len(steps) = 2
    /\ Len(producer[1].reader.data) > runtime.batch_size
    /\ steps[1].item.kind # "none"
    /\ steps[1].after = Len(producer[1].reader.data)
    /\ steps[2].item.kind = "none"

====
